---- MODULE Spec2Model ----
(***************************************************************************)
(* Food bank backend: the users and otp_verifications tables, the entity   *)
(* repositories of models.py, the authentication service of auth.py and    *)
(* the request handlers of routes.py, as one state machine.  Every         *)
(* repository call of a handler is one step, so that requests served by    *)
(* different workers interleave between their SQL statements.              *)
(***************************************************************************)
EXTENDS Integers, Sequences, FiniteSets, TLC

VARIABLES
    users,      \* table users: row id |-> row
    otps,       \* table otp_verifications: row id |-> row
    now,        \* wall clock, in minutes (datetime.now() and NOW())
    dbUp,       \* whether mysql.connector can reach the server
    call,       \* per worker: the OTPVerification call or the save it is running
    verified,   \* (user_id, otp_code, purpose) of every verify_otp that returned True
    req,        \* per worker: the HTTP request it is serving
    connection, \* Database.connection, the cached connection of db
    ret,        \* the last call of the database manager or of a repository, and its result
    app,        \* the application that create_app builds and __main__ runs
    donations,  \* table food_donations: row id |-> row
    requests,   \* table food_requests: row id |-> row
    session     \* the statements executed on the connection and not yet committed

repoVars == <<connection, ret, app, donations, requests, session>>
vars == <<users, otps, now, dbUp, call, verified, req, repoVars>>
otpVars == <<otps, call, verified>>

----------------------------------------------------------------------------
\* Bounds of the model.
NumWorkers == 2
MaxUsers == 2
MaxOtps == 2
MaxTime == 15
TickMinutes == 5
NumCodes == 2
MaxConnections == 3
MaxDonations == 2
MaxRequests == 1

Workers == 1..NumWorkers
UserIds == 1..MaxUsers
None == "None"

----------------------------------------------------------------------------
\* Password hashing (bcrypt): a salted one-way digest.
Salts == {"salt1"}

\* A hash_password that keeps the password as it is.
hash_password_plain(password, salt) == [salt |-> salt, digest |-> password]

\* bcrypt.hashpw(password, gensalt()): the salt and the digest of salt and password.
hash_password(password, salt) ==
    [salt |-> salt, digest |-> "bcrypt(" \o salt \o "," \o password \o ")"]

\* User.verify_password: bcrypt.checkpw hashes the password with the salt of the
\* stored hash and compares.
verify_password(password_hash, password) ==
    password_hash = hash_password(password, password_hash.salt)

\* A users row as register stores it.
UserRow(username, email, password_hash, full_name, phone) ==
    [username |-> username, email |-> email, password_hash |-> password_hash,
     full_name |-> full_name, phone |-> phone, role |-> "donor",
     last_login |-> None]

\* A database that already holds one registered user.
SeedUsers == << UserRow("alice", "a@x", hash_password("pw1", "salt1"), "n1", None) >>

----------------------------------------------------------------------------
\* One-time passcodes.
OTP_MIN == 100000
OTP_MAX == 999999
OTP_EXPIRY_MINUTES == 10

\* The values random.randint(100000, 999999) can draw, cut down to NumCodes.
Codes == {n \in OTP_MIN..(OTP_MIN + NumCodes - 1) : n <= OTP_MAX}

\* str(n): the decimal numeral of n.
str(n) == ToString(n)

CodeStrings == {str(n) : n \in Codes}

\* Two of ENUM('email_verification', 'password_reset', 'profile_update').
Purposes == {"email_verification", "password_reset"}

IdleCall == [pc |-> "idle"]

\* Database.get_connection: a connection, or None when the server is unreachable.
get_connection == IF dbUp THEN "connection" ELSE None

\* FOREIGN KEY (user_id) REFERENCES users(id)
UserIdExists(user_id) == user_id \in DOMAIN users

\* OTPVerification.generate_otp(user_id, purpose): INSERT and commit, one step.
generate_otp(w, user_id, purpose) ==
    /\ call[w].pc \in {"idle", "done"}
    /\ \E n \in Codes :
         LET otp_code == str(n)
             expires_at == now + OTP_EXPIRY_MINUTES
             ok == get_connection # None /\ UserIdExists(user_id) /\ Len(otps) < MaxOtps
         IN  /\ otps' = IF ok
                        THEN Append(otps, [user_id |-> user_id, otp_code |-> otp_code,
                                           purpose |-> purpose, is_used |-> FALSE,
                                           expires_at |-> expires_at])
                        ELSE otps
             /\ call' = [call EXCEPT ![w] =
                            [pc |-> "done", fn |-> "generate_otp",
                             otp_code |-> IF ok THEN otp_code ELSE None]]
    /\ UNCHANGED <<users, now, dbUp, verified, req, repoVars>>

\* What verify_otp matches a row on.
OtpKey(row) == <<row.user_id, row.otp_code, row.purpose>>

\* OtpMatches without the expiry test of the WHERE clause.
OtpMatchesNoExpiry(user_id, otp_code, purpose) ==
    {i \in DOMAIN otps :
        /\ OtpKey(otps[i]) = <<user_id, otp_code, purpose>>
        /\ otps[i].is_used = FALSE}

\* The rows the SELECT of verify_otp matches.
OtpMatches(user_id, otp_code, purpose) ==
    {i \in DOMAIN otps :
        /\ otps[i].user_id = user_id
        /\ otps[i].otp_code = otp_code
        /\ otps[i].purpose = purpose
        /\ otps[i].is_used = FALSE
        /\ otps[i].expires_at > now}

\* The call's arguments name an unused row, and every unused row they name has
\* its expires_at at or before NOW().
OnlyExpired(user_id, otp_code, purpose) ==
    LET named == {i \in DOMAIN otps : /\ OtpKey(otps[i]) = <<user_id, otp_code, purpose>>
                                      /\ otps[i].is_used = FALSE}
    IN  named # {} /\ \A i \in named : otps[i].expires_at <= now

\* OTPVerification.verify_otp, first statement: the SELECT and fetchone.
verify_otp_select(w, user_id, otp_code, purpose) ==
    /\ call[w].pc \in {"idle", "done"}
    /\ LET args == [fn |-> "verify_otp",
                    late |-> <<user_id, otp_code, purpose>> \in verified,
                    stale |-> OnlyExpired(user_id, otp_code, purpose)]
           matches == OtpMatches(user_id, otp_code, purpose)
       IN  IF get_connection = None \/ matches = {}
           THEN call' = [call EXCEPT ![w] =
                    args @@ [pc |-> "done", otp_record |-> 0, ret |-> FALSE]]
           ELSE \E i \in matches :
                call' = [call EXCEPT ![w] =
                    args @@ [pc |-> "update", otp_record |-> i, ret |-> FALSE]]
    /\ UNCHANGED <<users, otps, now, dbUp, verified, req, repoVars>>

\* OTPVerification.verify_otp, second statement: UPDATE ... SET is_used = TRUE,
\* commit, return True; an error of the statement returns False.
verify_otp_update(w) ==
    /\ call[w].pc = "update"
    /\ IF get_connection = None
       THEN /\ call' = [call EXCEPT ![w].pc = "done", ![w].ret = FALSE]
            /\ UNCHANGED <<otps, verified, repoVars>>
       ELSE /\ otps' = [otps EXCEPT ![call[w].otp_record].is_used = TRUE]
            /\ call' = [call EXCEPT ![w].pc = "done", ![w].ret = TRUE]
            /\ verified' = verified \cup {OtpKey(otps[call[w].otp_record])}
    /\ UNCHANGED <<users, now, dbUp, req, repoVars>>

\* Time passes.
Tick ==
    /\ now + TickMinutes <= MaxTime
    /\ now' = now + TickMinutes
    /\ UNCHANGED <<users, otps, dbUp, call, verified, req, repoVars>>

\* The server becomes unreachable, or reachable again.
DbFlip ==
    /\ dbUp' = ~dbUp
    /\ UNCHANGED <<users, otps, now, call, verified, req, repoVars>>

----------------------------------------------------------------------------
\* Users: the repository of models.py and the handlers of routes.py.
Usernames == {"alice", "a@x"}
Emails == {"a@x", "b@x"}
Passwords == {"pw1", "pw2"}

IdleReq == [pc |-> "idle"]
NoUser == [id |-> 0]

\* cls(**user_data): the User object of row i.
UserObject(i) == [id |-> i] @@ users[i]


\* User.find_by_username: the object of the matching row, or None (also when
\* there is no connection or the query fails).
find_by_username(username) ==
    IF get_connection = None \/ ~\E i \in DOMAIN users : users[i].username = username
    THEN NoUser
    ELSE UserObject(CHOOSE i \in DOMAIN users : users[i].username = username)

\* User.find_by_email
find_by_email(email) ==
    IF get_connection = None \/ ~\E i \in DOMAIN users : users[i].email = email
    THEN NoUser
    ELSE UserObject(CHOOSE i \in DOMAIN users : users[i].email = email)

\* User.find_by_id
find_by_id(user_id) ==
    IF get_connection = None \/ user_id \notin DOMAIN users
    THEN NoUser
    ELSE UserObject(user_id)

\* The users table without its UNIQUE keys.
NoUniqueKeys(user) == FALSE

\* username VARCHAR(80) UNIQUE, email VARCHAR(120) UNIQUE: the statement that
\* would leave two rows with one username or one email raises.
UniqueViolation(user) ==
    \E j \in DOMAIN users :
        j # user.id /\ (users[j].username = user.username \/ users[j].email = user.email)

\* User.save: [ret |-> the id or 0 for None, users |-> the table afterwards].
\* The UPDATE writes every column but password_hash.
UserSave(user) ==
    IF get_connection = None \/ UniqueViolation(user)
    THEN [ret |-> 0, users |-> users]
    ELSE IF user.id # 0
    THEN [ret |-> user.id,
          users |-> IF user.id \in DOMAIN users
                    THEN [users EXCEPT ![user.id] =
                            [username |-> user.username, email |-> user.email,
                             password_hash |-> users[user.id].password_hash,
                             full_name |-> user.full_name, phone |-> user.phone,
                             role |-> user.role, last_login |-> user.last_login]]
                    ELSE users]
    ELSE [ret |-> Len(users) + 1,
          users |-> Append(users,
                      [username |-> user.username, email |-> user.email,
                       password_hash |-> user.password_hash,
                       full_name |-> user.full_name, phone |-> user.phone,
                       role |-> user.role, last_login |-> None])]

\* A response of a route: status, the error message, the identity the issued
\* tokens carry and the id of the user in the body (0 where there is none).
Response(route, status, error, sub, uid) ==
    [pc |-> "done", route |-> route, status |-> status, error |-> error,
     sub |-> sub, uid |-> uid]

\* @jwt.user_identity_loader: user.id of the identity passed to create_*_token;
\* an identity that is not a User object has no id (AttributeError, -1).
user_identity_lookup(identity) ==
    IF identity.kind = "User" THEN identity.id ELSE -1

\* create_tokens(user): the sub claim of the access and the refresh token.
create_tokens(user) == user_identity_lookup([kind |-> "User", id |-> user.id])

\* The request bodies of POST /auth/register: the complete ones, and one with
\* each required field missing.
RegisterFields == <<"username", "email", "password", "full_name">>
RegisterBodies ==
    LET full == [username : Usernames, email : Emails, password : {"pw1"},
                 full_name : {"n1"}]
        base == [username |-> "alice", email |-> "a@x", password |-> "pw1",
                 full_name |-> "n1"]
    IN  full \cup {[base EXCEPT ![RegisterFields[k]] = None] : k \in 1..4}

\* The first of the fields that data.get(field) finds missing, 0 if none.
FirstMissing(data, fields) ==
    IF \E k \in DOMAIN fields : data[fields[k]] = None
    THEN CHOOSE k \in DOMAIN fields :
            /\ data[fields[k]] = None
            /\ \A j \in 1..(k - 1) : data[fields[j]] # None
    ELSE 0

\* register, to the end of its first repository call: the required fields and
\* User.find_by_username.
register_username(w, data) ==
    /\ req[w].pc \in {"idle", "done"}
    /\ LET k == FirstMissing(data, RegisterFields)
       IN  req' = [req EXCEPT ![w] =
             IF k # 0
             THEN Response("register", 400, "Missing required field", 0, 0)
                    @@ [field |-> RegisterFields[k]]
             ELSE IF find_by_username(data.username).id # 0
             THEN Response("register", 400, "Username already exists", 0, 0)
             ELSE [pc |-> "reg_email", route |-> "register", data |-> data]]
    /\ UNCHANGED <<users, otps, now, dbUp, call, verified, repoVars>>

\* register: User.find_by_email, then the User object with the hashed password.
register_email(w) ==
    /\ req[w].pc = "reg_email"
    /\ \E salt \in Salts :
        req' = [req EXCEPT ![w] =
             IF find_by_email(req[w].data.email).id # 0
             THEN Response("register", 400, "Email already exists", 0, 0)
             ELSE [pc |-> "reg_save", route |-> "register", data |-> req[w].data,
                   user |-> [id |-> 0, username |-> req[w].data.username,
                             email |-> req[w].data.email,
                             password_hash |-> hash_password(req[w].data.password, salt),
                             full_name |-> req[w].data.full_name,
                             phone |-> None, role |-> "donor",
                             last_login |-> None]]]
    /\ UNCHANGED <<users, otps, now, dbUp, call, verified, repoVars>>

\* register: user.save(), the tokens and the response.
register_save(w) ==
    /\ req[w].pc = "reg_save"
    /\ LET saved == UserSave(req[w].user)
       IN  /\ saved.ret # 0 => Len(users) < MaxUsers
           /\ users' = saved.users
           /\ req' = [req EXCEPT ![w] =
                IF saved.ret # 0
                THEN Response("register", 201, "", create_tokens([id |-> saved.ret]),
                              saved.ret)
                ELSE Response("register", 500, "Failed to create user", 0, 0)]
    /\ UNCHANGED <<otps, now, dbUp, call, verified, repoVars>>

----------------------------------------------------------------------------
\* Tokens (flask_jwt_extended).  A request carries no token, one that does not
\* decode, an expired one, or a valid access or refresh token; sub is the
\* identity claim.
Tokens ==
    {[type |-> "none", sub |-> 0], [type |-> "invalid", sub |-> 0]}
    \cup [type : {"expired", "access", "refresh"}, sub : UserIds]

\* @jwt_required(refresh=...) with the callbacks auth.py registers: the status
\* the request is refused with, or 0 when the handler is entered.  A missing or
\* expired token is refused 401, one that does not decode or has the wrong type
\* 422 (auth.py registers no invalid_token_loader), and user_lookup_callback
\* (User.find_by_id) returning None 401.
jwt_required(token, refresh) ==
    IF token.type = "none" THEN 401
    ELSE IF token.type = "invalid" THEN 422
    ELSE IF token.type = "expired" THEN 401
    ELSE IF token.type # (IF refresh THEN "refresh" ELSE "access") THEN 422
    ELSE IF find_by_id(token.sub).id = 0 THEN 401
    ELSE 0

\* What a refused request is refused for.
Refusal(token, refresh) ==
    IF token.type \in {"none", "invalid", "expired"} THEN token.type
    ELSE IF token.type # (IF refresh THEN "refresh" ELSE "access") THEN "wrong type"
    ELSE "no user"

\* The decorator's step of a guarded route: refuse, or enter the handler.
Guard(w, route, token, refresh, entered) ==
    /\ req[w].pc \in {"idle", "done"}
    /\ LET refused == jwt_required(token, refresh)
       IN  req' = [req EXCEPT ![w] =
             IF refused # 0
             THEN Response(route, refused, Refusal(token, refresh), 0, 0)
                    @@ [refused |-> TRUE]
             ELSE entered @@ [route |-> route, identity |-> token.sub]]
    /\ UNCHANGED <<users, otps, now, dbUp, call, verified, repoVars>>

\* The response of a handler that was entered.
Handled(route, status, error, sub, uid) ==
    Response(route, status, error, sub, uid) @@ [refused |-> FALSE]

\* GET /profile
get_profile_guard(w, token) ==
    Guard(w, "get_profile", token, FALSE, [pc |-> "profile_find"])

get_profile(w) ==
    /\ req[w].pc = "profile_find"
    /\ LET user == find_by_id(req[w].identity)
       IN  req' = [req EXCEPT ![w] =
             IF user.id = 0
             THEN Handled("get_profile", 404, "User not found", 0, 0)
             ELSE Handled("get_profile", 200, "", 0, user.id)]
    /\ UNCHANGED <<users, otps, now, dbUp, call, verified, repoVars>>

\* POST /auth/refresh: create_access_token(identity=current_user_id) hands the
\* integer identity to user_identity_lookup.
refresh_token_guard(w, token) ==
    Guard(w, "refresh_token", token, TRUE, [pc |-> "refresh_find"])

refresh_token(w) ==
    /\ req[w].pc = "refresh_find"
    /\ LET current_user_id == req[w].identity
           user == find_by_id(current_user_id)
           sub == user_identity_lookup([kind |-> "int", id |-> current_user_id])
       IN  req' = [req EXCEPT ![w] =
             IF user.id = 0
             THEN Handled("refresh_token", 404, "User not found", 0, 0)
             ELSE IF sub = -1
             THEN Handled("refresh_token", 500, "Internal server error", 0, 0)
             ELSE Handled("refresh_token", 200, "", sub, 0)]
    /\ UNCHANGED <<users, otps, now, dbUp, call, verified, repoVars>>

\* PUT /profile.  Absent marks a key the body does not hold.
Absent == "Absent"
ProfileBodies ==
    {d \in [full_name : {Absent, "n2"}, phone : {Absent, "p1"},
            email : {Absent} \cup Emails] :
        d.full_name # Absent <=> d.phone # Absent}

update_profile_guard(w, token) ==
    Guard(w, "update_profile", token, FALSE, [pc |-> "upd_find"])

\* update_profile: User.find_by_id, then the body's full_name and phone set on
\* the object.
update_profile_find(w, data) ==
    /\ req[w].pc = "upd_find"
    /\ LET user == find_by_id(req[w].identity)
       IN  req' = [req EXCEPT ![w] =
             IF user.id = 0
             THEN Handled("update_profile", 404, "User not found", 0, 0)
             ELSE [pc |-> IF data.email # Absent THEN "upd_email" ELSE "upd_save",
                   route |-> "update_profile",
                   email |-> data.email,
                   user |-> [user EXCEPT
                        !.full_name = IF data.full_name # Absent THEN data.full_name ELSE @,
                        !.phone = IF data.phone # Absent THEN data.phone ELSE @]]]
    /\ UNCHANGED <<users, otps, now, dbUp, call, verified, repoVars>>

\* update_profile with the test of the email's owner left out.
update_profile_email_unchecked(w) ==
    /\ req[w].pc = "upd_email"
    /\ req' = [req EXCEPT ![w].pc = "upd_save", ![w].user.email = req[w].email]
    /\ UNCHANGED <<users, otps, now, dbUp, call, verified, repoVars>>

\* update_profile: User.find_by_email of the new email; taken by another user
\* is refused 400, otherwise the email is set on the object.
update_profile_email(w) ==
    /\ req[w].pc = "upd_email"
    /\ LET existing_user == find_by_email(req[w].email)
       IN  req' = [req EXCEPT ![w] =
             IF existing_user.id # 0 /\ existing_user.id # req[w].user.id
             THEN Handled("update_profile", 400, "Email already taken", 0, 0)
             ELSE [req[w] EXCEPT !.pc = "upd_save", !.user.email = req[w].email]]
    /\ UNCHANGED <<users, otps, now, dbUp, call, verified, repoVars>>

\* update_profile: user.save() and the response.
update_profile_save(w) ==
    /\ req[w].pc = "upd_save"
    /\ LET saved == UserSave(req[w].user)
       IN  /\ users' = saved.users
           /\ req' = [req EXCEPT ![w] =
                IF saved.ret # 0
                THEN Handled("update_profile", 200, "", 0, saved.ret)
                ELSE Handled("update_profile", 500, "Failed to update profile", 0, 0)]
    /\ UNCHANGED <<otps, now, dbUp, call, verified, repoVars>>

\* POST /auth/login and authenticate_user of auth.py.
LoginBodies ==
    [username : Usernames \cup Emails \cup {"nobody"}, password : Passwords]
    \cup {[username |-> None, password |-> "pw1"], [username |-> "alice", password |-> None]}

\* A login that answers an identifier no user has with 404.
AuthenticatedOrNotFound(user, data, err) ==
    IF user.id = 0
    THEN Response("login", 404, "User not found", 0, 0)
            @@ [auth |-> 0, data |-> data, err |-> err]
    ELSE IF verify_password(user.password_hash, data.password)
    THEN [pc |-> "login_save", route |-> "login", user |-> user, auth |-> user.id,
          data |-> data, err |-> err]
    ELSE Response("login", 401, "Invalid credentials", 0, 0)
            @@ [auth |-> 0, data |-> data, err |-> err]

\* authenticate_user from "if not user: return None" on: None for no user or a
\* password that does not verify, else the user.  auth is the id of the user
\* returned (0 for None), err whether a lookup of this call failed.
Authenticated(user, data, err) ==
    IF user.id # 0 /\ verify_password(user.password_hash, data.password)
    THEN [pc |-> "login_save", route |-> "login", user |-> user, auth |-> user.id,
          data |-> data, err |-> err]
    ELSE Response("login", 401, "Invalid credentials", 0, 0)
            @@ [auth |-> 0, data |-> data, err |-> err]

\* login to the end of User.find_by_username in authenticate_user.
login_username(w, data) ==
    /\ req[w].pc \in {"idle", "done"}
    /\ LET user == find_by_username(data.username)
           err == get_connection = None
       IN  req' = [req EXCEPT ![w] =
             IF data.username = None \/ data.password = None
             THEN Response("login", 400, "Username and password are required", 0, 0)
             ELSE IF user.id = 0
             THEN [pc |-> "login_email", route |-> "login", data |-> data, err |-> err]
             ELSE Authenticated(user, data, err)]
    /\ UNCHANGED <<users, otps, now, dbUp, call, verified, repoVars>>

\* authenticate_user: no user by username, so User.find_by_email.
login_email(w) ==
    /\ req[w].pc = "login_email"
    /\ LET user == find_by_email(req[w].data.username)
           err == req[w].err \/ get_connection = None
       IN  req' = [req EXCEPT ![w] = Authenticated(user, req[w].data, err)]
    /\ UNCHANGED <<users, otps, now, dbUp, call, verified, repoVars>>

\* login after authenticate_user returned a user: the tokens, last_login and
\* user.save(), whose result login does not look at.
login_save(w) ==
    /\ req[w].pc = "login_save"
    /\ LET user == [req[w].user EXCEPT !.last_login = now]
       IN  /\ users' = UserSave(user).users
           /\ req' = [req EXCEPT ![w] =
                Response("login", 200, "", create_tokens(user), user.id)]
    /\ UNCHANGED <<otps, now, dbUp, call, verified, repoVars>>

\* A database that holds two registered users, the username of the first being
\* the email of the second.
AuthSeedUsers ==
    << UserRow("a@x", "b@x", hash_password("pw1", "salt1"), "n1", None),
       [UserRow("alice", "a@x", hash_password("pw2", "salt1"), "n1", None)
          EXCEPT !.role = "admin"] >>

----------------------------------------------------------------------------
\* Database (database.py).  A connection object is its number and whether it
\* is still open; number 0 stands for None.
NoConnection == [id |-> 0, open |-> FALSE]

\* A cached connection that is taken for connected without asking it.
is_connected_unasked(conn) == conn.id # 0

\* self.connection and self.connection.is_connected(): there is a connection,
\* nobody closed it, and the server answers its ping.
is_connected(conn) == conn.id # 0 /\ conn.open /\ dbUp

\* self.connection after get_connection: the cached connection if it is
\* connected or the server cannot be reached, else a new one.
Cached ==
    IF is_connected(connection) THEN connection
    ELSE IF dbUp THEN [id |-> connection.id + 1, open |-> TRUE]
    ELSE connection

\* Connections are numbered up to MaxConnections.
CanConnect == (~is_connected(connection) /\ dbUp) => connection.id < MaxConnections

\* Database.get_connection: the cached connection if it is connected, else the
\* connection mysql.connector.connect opens, which is cached; None when
\* connect raises Error.
db_get_connection ==
    /\ CanConnect
    /\ connection' = Cached
    /\ ret' = [fn |-> "get_connection",
               conn |-> IF is_connected(connection) \/ dbUp THEN Cached ELSE NoConnection]
    /\ UNCHANGED <<users, otps, now, dbUp, call, verified, session, req, app, donations, requests>>

\* Database.close_connection
db_close_connection ==
    /\ connection' =
         IF is_connected(connection) THEN [connection EXCEPT !.open = FALSE]
         ELSE connection
    /\ ret' = [fn |-> "close_connection"]
    /\ UNCHANGED <<users, otps, now, dbUp, call, verified, session, req, app, donations, requests>>

\* Table food_donations: the owner, food_category (one of the NOT NULL columns
\* that describe the food), quantity and status.  0 stands for the None of a
\* user_id.
DonationStatuses == {"pending", "approved", "collected", "cancelled"}
FoodCategories == {"grain"}
Quantities == {"5"}
DonationRow(user_id, food_category, quantity, status) ==
    [user_id |-> user_id, food_category |-> food_category, quantity |-> quantity,
     status |-> status]

\* A food_donations table that holds one donation of the registered user.
SeedDonations == << DonationRow(1, "grain", "5", "pending") >>

\* Table food_requests: the owner, food_category and status.
RequestStatuses == {"pending", "approved", "delivered", "cancelled"}
RequestRow(user_id, food_category, status) ==
    [user_id |-> user_id, food_category |-> food_category, status |-> status]

\* NOT NULL, the ENUM of status and the FOREIGN KEY of user_id refuse the
\* INSERT of FoodDonation.save; NOT NULL and the ENUM its UPDATE of a row.
DonationRefused(donation) ==
    \/ donation.food_category = None
    \/ donation.quantity = None
    \/ donation.status \notin DonationStatuses
    \/ donation.id = 0 /\ donation.user_id \notin DOMAIN users

\* FoodDonation.save: [ret |-> the id or 0 for None, table |-> food_donations
\* afterwards].  The UPDATE writes every column but user_id, and no row when
\* none has the id.
FoodDonationSave(donation) ==
    IF get_connection = None THEN [ret |-> 0, table |-> donations]
    ELSE IF donation.id # 0
    THEN IF donation.id \notin DOMAIN donations
         THEN [ret |-> donation.id, table |-> donations]
         ELSE IF DonationRefused(donation) THEN [ret |-> 0, table |-> donations]
         ELSE [ret |-> donation.id,
               table |-> [donations EXCEPT ![donation.id] =
                    DonationRow(donations[donation.id].user_id, donation.food_category,
                                donation.quantity, donation.status)]]
    ELSE IF DonationRefused(donation) THEN [ret |-> 0, table |-> donations]
    ELSE [ret |-> Len(donations) + 1,
          table |-> Append(donations,
                    DonationRow(donation.user_id, donation.food_category,
                                donation.quantity, donation.status))]

RequestRefused(request) ==
    \/ request.food_category = None
    \/ request.status \notin RequestStatuses
    \/ request.id = 0 /\ request.user_id \notin DOMAIN users

\* FoodRequest.save
FoodRequestSave(request) ==
    IF get_connection = None THEN [ret |-> 0, table |-> requests]
    ELSE IF request.id # 0
    THEN IF request.id \notin DOMAIN requests
         THEN [ret |-> request.id, table |-> requests]
         ELSE IF RequestRefused(request) THEN [ret |-> 0, table |-> requests]
         ELSE [ret |-> request.id,
               table |-> [requests EXCEPT ![request.id] =
                    RequestRow(requests[request.id].user_id, request.food_category,
                               request.status)]]
    ELSE IF RequestRefused(request) THEN [ret |-> 0, table |-> requests]
    ELSE [ret |-> Len(requests) + 1,
          table |-> Append(requests,
                    RequestRow(request.user_id, request.food_category, request.status))]

\* The objects save is called on.
UserObjects ==
    [id : 0..1, username : Usernames, email : Emails,
     password_hash : {hash_password("pw2", "salt1")}, full_name : {"n1"},
     phone : {None}, role : {"donor"}, last_login : {None}]
DonationObjects ==
    [id : 0..MaxDonations, user_id : 0..1, food_category : FoodCategories \cup {None},
     quantity : Quantities, status : {"pending", "approved", "collected", "available"}]
RequestObjects ==
    [id : 0..MaxRequests, user_id : 0..1, food_category : FoodCategories,
     status : {"pending", "delivered", "available"}]

\* Where a failure strikes in save: nowhere, at connection.cursor(), or the
\* session is lost while the statement runs.
SaveFailures == {"none", "cursor", "lost"}

\* try / except / finally of save.  A refused statement is rolled back and
\* None returned.  When connection.cursor() raises, the finally raises
\* UnboundLocalError for the unbound cursor; when the session is lost,
\* connection.rollback() in the except raises as well.  Nothing is written in
\* either case.
save(kind, saved, fail) ==
    /\ CanConnect
    /\ Len(saved.table) <= (CASE kind = "User" -> MaxUsers
                               [] kind = "FoodDonation" -> MaxDonations
                               [] OTHER -> MaxRequests)
    /\ LET failed == get_connection = None \/ fail # "none"
       IN  /\ connection' = IF fail = "lost" /\ get_connection # None
                            THEN [Cached EXCEPT !.open = FALSE] ELSE Cached
           /\ users' = IF kind = "User" /\ ~failed THEN saved.table ELSE users
           /\ donations' = IF kind = "FoodDonation" /\ ~failed THEN saved.table ELSE donations
           /\ requests' = IF kind = "FoodRequest" /\ ~failed THEN saved.table ELSE requests
           /\ ret' = [fn |-> "save", kind |-> kind,
                      fail |-> IF get_connection = None THEN "connection" ELSE fail,
                      raised |-> get_connection # None /\ fail # "none",
                      value |-> IF failed THEN 0 ELSE saved.ret]
    /\ UNCHANGED <<otps, now, dbUp, call, verified, session, req, app>>



\* User.save, statement by statement, for requests that run side by side on
\* db.connection.  The connection has one session and the session one open
\* transaction: session holds the statements executed and not yet committed,
\* whoever executed them.
\* The UNIQUE keys as the session sees them.
Refused(table, user) ==
    \E j \in DOMAIN table :
        j # user.id /\ (table[j].username = user.username \/ table[j].email = user.email)

\* The table after the UPDATE (every column but password_hash) or the INSERT.
Statement(table, user) ==
    IF user.id # 0
    THEN IF user.id \in DOMAIN table
         THEN [table EXCEPT ![user.id] =
                 [username |-> user.username, email |-> user.email,
                  password_hash |-> table[user.id].password_hash,
                  full_name |-> user.full_name, phone |-> user.phone,
                  role |-> user.role, last_login |-> user.last_login]]
         ELSE table
    ELSE Append(table,
           [username |-> user.username, email |-> user.email,
            password_hash |-> user.password_hash,
            full_name |-> user.full_name, phone |-> user.phone,
            role |-> user.role, last_login |-> None])

\* The table as the session sees it: the committed rows and its own
\* uncommitted statements, in the order they were executed.
RECURSIVE View(_, _)
View(table, writes) ==
    IF writes = << >> THEN table
    ELSE View(Statement(table, Head(writes).user), Tail(writes))

\* The connection object a save holds still is db.connection and answers.
Alive(conn) == connection.id = conn /\ connection.open /\ dbUp

\* A statement on a connection that does not answer: if it is db.connection,
\* the session is lost and the server discards its transaction.
Lost(conn) == IF connection.id = conn THEN [connection EXCEPT !.open = FALSE] ELSE connection
Discarded(conn) == IF connection.id = conn THEN << >> ELSE session
Dropped(conn) == IF connection.id = conn THEN session ELSE << >>

\* The position of worker w in save.  fate records what became of the
\* statement it executed: "none" while it has executed none, then "pending",
\* and "committed" or "discarded" once a commit, a rollback or the loss of the
\* session has settled it.
SaveCall_(pc, user, conn, id, retval, fate) ==
    [pc |-> pc, fn |-> "save", user |-> user, conn |-> conn, id |-> id,
     ret |-> retval, raised |-> FALSE, fate |-> fate]

\* The calls after the statements of writes met fate, and worker w moved on.
Settled(writes, fate, w, moved) ==
    [v \in Workers |->
        LET c == IF v = w THEN moved ELSE call[v]
        IN  IF \E i \in DOMAIN writes : writes[i].by = v
            THEN [c EXCEPT !.fate = fate] ELSE c]

\* connection = db.get_connection(); cursor.execute(UPDATE or INSERT);
\* self.id = cursor.lastrowid.  None is returned when there is no connection;
\* a refused statement raises and save goes to its except clause.
save_execute(w, user) ==
    /\ call[w].pc \in {"idle", "done"}
    /\ CanConnect
    /\ connection' = Cached
    /\ LET view == View(users, session)
       IN  /\ Len(Statement(view, user)) <= MaxUsers
           /\ IF ~dbUp
              THEN /\ call' = [call EXCEPT ![w] =
                                 SaveCall_("done", user, 0, 0, 0, "none")]
                   /\ session' = session
              ELSE IF Refused(view, user)
              THEN /\ call' = [call EXCEPT ![w] =
                                 SaveCall_("save_except", user, Cached.id, 0, 0, "none")]
                   /\ session' = session
              ELSE /\ call' = [call EXCEPT ![w] =
                                 SaveCall_("save_commit", user, Cached.id,
                                           IF user.id # 0 THEN user.id ELSE Len(view) + 1,
                                           0, "pending")]
                   /\ session' = Append(session, [by |-> w, user |-> user])
    /\ UNCHANGED <<users, otps, now, dbUp, verified, req, ret, app, donations, requests>>

\* connection.commit(); return self.id.  The commit makes every statement of
\* the session permanent; when it raises, save goes to its except clause.
save_commit(w) ==
    /\ call[w].pc = "save_commit"
    /\ IF Alive(call[w].conn)
       THEN /\ users' = View(users, session)
            /\ session' = << >>
            /\ connection' = connection
            /\ call' = Settled(session, "committed", w,
                               [call[w] EXCEPT !.pc = "done", !.ret = call[w].id])
       ELSE /\ users' = users
            /\ session' = Discarded(call[w].conn)
            /\ connection' = Lost(call[w].conn)
            /\ call' = Settled(Dropped(call[w].conn), "discarded", w,
                               [call[w] EXCEPT !.pc = "save_except"])
    /\ UNCHANGED <<otps, now, dbUp, verified, req, ret, app, donations, requests>>

\* except Exception: connection.rollback(); return None.  The rollback
\* discards every uncommitted statement of the session; on a connection that
\* does not answer it raises, and the exception leaves save.
save_rollback(w) ==
    /\ call[w].pc = "save_except"
    /\ IF Alive(call[w].conn)
       THEN /\ session' = << >>
            /\ connection' = connection
            /\ call' = Settled(session, "discarded", w,
                               [call[w] EXCEPT !.pc = "done", !.ret = 0])
       ELSE /\ session' = Discarded(call[w].conn)
            /\ connection' = Lost(call[w].conn)
            /\ call' = Settled(Dropped(call[w].conn), "discarded", w,
                               [call[w] EXCEPT !.pc = "done", !.ret = 0, !.raised = TRUE])
    /\ UNCHANGED <<users, otps, now, dbUp, verified, req, ret, app, donations, requests>>

\* FoodDonation.find_by_user_id, get_available_donations, get_all_donations:
\* the ids of the rows selected (their order is not modelled; MaxDonations is
\* below the LIMIT of find_by_user_id).
find_by_user_id(user_id) ==
    IF get_connection = None THEN {}
    ELSE {i \in DOMAIN donations : donations[i].user_id = user_id}

get_available_donations ==
    IF get_connection = None THEN {}
    ELSE {i \in DOMAIN donations : donations[i].status = "available"}

get_all_donations ==
    IF get_connection = None THEN {} ELSE DOMAIN donations

\* The finders, and the statement of a finder at which a failure strikes:
\* connection.cursor(), cursor.execute()/fetch, or cls(**row).
RecordFinders == {"find_by_id", "find_by_username", "find_by_email"}
ListFinders == {"find_by_user_id", "get_available_donations", "get_all_donations"}
Finders == RecordFinders \cup ListFinders
Failures == {"none", "cursor", "query", "hydrate"}

\* What a finder returns for nothing: None (0, the id of no user) or [].
Empty(fn) == IF fn \in ListFinders THEN {} ELSE 0

FinderArgs(fn) ==
    CASE fn = "find_by_id" -> UserIds
      [] fn = "find_by_username" -> Usernames
      [] fn = "find_by_email" -> Emails
      [] fn = "find_by_user_id" -> UserIds
      [] OTHER -> {None}

Found(fn, arg) ==
    CASE fn = "find_by_id" -> find_by_id(arg).id
      [] fn = "find_by_username" -> find_by_username(arg).id
      [] fn = "find_by_email" -> find_by_email(arg).id
      [] fn = "find_by_user_id" -> find_by_user_id(arg)
      [] fn = "get_available_donations" -> get_available_donations
      [] OTHER -> get_all_donations

\* try / except Exception / finally of a finder.  A failure of execute or of
\* hydration is caught and None or [] returned.  When connection.cursor()
\* raises, cursor was never bound: the except returns None, and "if cursor:" in
\* the finally raises UnboundLocalError, which is what the caller gets.
finder(fn, arg, fail) ==
    /\ CanConnect
    /\ connection' = Cached
    /\ ret' =
         IF get_connection = None
         THEN [fn |-> fn, fail |-> "connection", raised |-> FALSE, value |-> Empty(fn)]
         ELSE IF fail = "cursor"
         THEN [fn |-> fn, fail |-> fail, raised |-> TRUE, value |-> Empty(fn)]
         ELSE IF fail \in {"query", "hydrate"}
         THEN [fn |-> fn, fail |-> fail, raised |-> FALSE, value |-> Empty(fn)]
         ELSE [fn |-> fn, fail |-> fail, raised |-> FALSE, value |-> Found(fn, arg)]
    /\ UNCHANGED <<users, otps, now, dbUp, call, verified, session, req, app, donations, requests>>

\* The CREATE TABLE statements of initialize_database, in their order.
CreateStatements ==
    <<"users", "food_donations", "food_requests", "notifications", "otp_verifications">>

\* Where initialize_database fails: nowhere, at connection.cursor(), or at one
\* of its statements.
InitFailures == {"none", "cursor"} \cup {CreateStatements[i] : i \in DOMAIN CreateStatements}

\* Database.initialize_database: False without a connection and when a
\* statement raises Error, which ends the try; True after the commit.  When
\* connection.cursor() raises, the finally raises for the unbound cursor.
initialize_database(fail) ==
    IF get_connection = None THEN "False"
    ELSE IF fail = "cursor" THEN "raised"
    ELSE IF fail # "none" THEN "False"
    ELSE "True"

\* create_app up to its test connection: None is returned when
\* mysql.connector.connect raises, and __main__ exits.
create_app_connect ==
    /\ app.state = "stopped"
    /\ app' = [app EXCEPT !.state = IF dbUp THEN "connected" ELSE "refused"]
    /\ UNCHANGED <<users, otps, now, dbUp, call, verified, session, req, connection, ret, donations, requests>>

\* create_app from init_auth on: db.initialize_database() is called and its
\* result dropped, the blueprint registered and the application returned,
\* which __main__ runs.  An exception out of initialize_database ends the
\* process.
create_app_initialize(fail) ==
    /\ app.state = "connected"
    /\ CanConnect
    /\ connection' = Cached
    /\ LET initialized == initialize_database(fail)
       IN  app' = [state |-> IF initialized = "raised" THEN "crashed" ELSE "serving",
                   initialized |-> initialized]
    /\ UNCHANGED <<users, otps, now, dbUp, call, verified, session, req, ret, donations, requests>>

\* The process is started again.
Restart ==
    /\ app.state \in {"refused", "crashed", "serving"}
    /\ app' = [state |-> "stopped", initialized |-> "not run"]
    /\ UNCHANGED <<users, otps, now, dbUp, call, verified, session, req, connection, ret, donations, requests>>

\* The server or the network ends the session of the cached connection.
ConnectionLost ==
    /\ connection.open
    /\ connection' = [connection EXCEPT !.open = FALSE]
    /\ UNCHANGED <<users, otps, now, dbUp, call, verified, session, req, ret, app, donations, requests>>

----------------------------------------------------------------------------
\* The donation, inventory, OTP and password routes of routes.py.

\* request.get_json() of a request that carries no JSON body: it raises or
\* returns None, and either way the handler's except answers.
NoBody == [body |-> "none"]

DonationFields == <<"food_item", "quantity">>
DonationBodies ==
    [food_item : {"rice", None}, quantity : Quantities \cup {None}] \cup {NoBody}

\* FoodDonation(food_item=..., quantity=..., donor_id=current_user_id,
\* status='available', ...): food_item and donor_id are no parameters of
\* __init__ and become extra attributes, so user_id and food_category stay None.
NewDonation(data, current_user_id) ==
    [id |-> 0, user_id |-> 0, food_category |-> None, quantity |-> data.quantity,
     status |-> "available", food_item |-> data.food_item, donor_id |-> current_user_id]

\* POST /donations
create_donation_guard(w, token) ==
    Guard(w, "create_donation", token, FALSE, [pc |-> "donation_save"])

create_donation(w, data) ==
    /\ req[w].pc = "donation_save"
    /\ LET k == FirstMissing(data, DonationFields)
           donation == NewDonation(data, req[w].identity)
           saved == FoodDonationSave(donation)
       IN  IF data = NoBody
           THEN /\ req' = [req EXCEPT ![w] =
                       Handled("create_donation", 500, "Internal server error", 0, 0)]
                /\ UNCHANGED donations
           ELSE IF k # 0
           THEN /\ req' = [req EXCEPT ![w] =
                       Handled("create_donation", 400, "Missing required field", 0, 0)
                           @@ [field |-> DonationFields[k]]]
                /\ UNCHANGED donations
           ELSE /\ Len(saved.table) <= MaxDonations
                /\ donations' = saved.table
                /\ req' = [req EXCEPT ![w] =
                       IF saved.ret # 0
                       THEN Handled("create_donation", 201, "", 0, 0)
                               @@ [donation |-> saved.ret]
                       ELSE Handled("create_donation", 500, "Failed to create donation", 0, 0)]
    /\ UNCHANGED <<users, otps, now, dbUp, call, verified, session, connection, ret, app, requests>>

\* The list a handler builds from the donations a finder returned: it reads
\* donation.food_item and donation.donor_id, which a hydrated row does not
\* have, so any donation in the list ends the handler in its except.
Listed(route, found) ==
    IF found # {}
    THEN Handled(route, 500, "Internal server error", 0, 0) @@ [items |-> {}]
    ELSE Handled(route, 200, "", 0, 0) @@ [items |-> found]

\* GET /inventory
get_inventory_guard(w, token) ==
    Guard(w, "get_inventory", token, FALSE, [pc |-> "inventory_find"])

get_inventory(w) ==
    /\ req[w].pc = "inventory_find"
    /\ req' = [req EXCEPT ![w] = Listed("get_inventory", get_available_donations)]
    /\ UNCHANGED <<users, otps, now, dbUp, call, verified, repoVars>>

\* GET /donations: with donor_id or status in the query it calls
\* FoodDonation.find_by_donor or find_by_status, which models.py does not
\* define.
DonationQueries == {"none", "donor_id", "status"}

get_donations_guard(w, token) ==
    Guard(w, "get_donations", token, FALSE, [pc |-> "donations_find"])

get_donations(w, query) ==
    /\ req[w].pc = "donations_find"
    /\ req' = [req EXCEPT ![w] =
         IF query # "none"
         THEN Handled("get_donations", 500, "Internal server error", 0, 0) @@ [items |-> {}]
         ELSE Listed("get_donations", get_all_donations)]
    /\ UNCHANGED <<users, otps, now, dbUp, call, verified, repoVars>>

\* POST /otp/verify: after the required fields it calls
\* OTPVerification.verify_otp with two arguments of its three, a TypeError.
OtpVerifyFields == <<"otp_id", "otp_code">>
OtpVerifyBodies == [otp_id : {"1", None}, otp_code : CodeStrings \cup {None}] \cup {NoBody}

verify_otp_route(w, data) ==
    /\ req[w].pc \in {"idle", "done"}
    /\ LET k == FirstMissing(data, OtpVerifyFields)
       IN  req' = [req EXCEPT ![w] =
             IF data = NoBody
             THEN Response("verify_otp", 500, "Internal server error", 0, 0)
             ELSE IF k # 0
             THEN Response("verify_otp", 400, "Missing required field", 0, 0)
                    @@ [field |-> OtpVerifyFields[k]]
             ELSE Response("verify_otp", 500, "Internal server error", 0, 0)]
    /\ UNCHANGED <<users, otps, now, dbUp, call, verified, repoVars>>

\* POST /auth/reset-password
ResetFields == <<"token", "new_password">>
ResetBodies == [token : {"t", None}, new_password : Passwords \cup {None}] \cup {NoBody}

reset_password(w, data) ==
    /\ req[w].pc \in {"idle", "done"}
    /\ LET k == FirstMissing(data, ResetFields)
       IN  req' = [req EXCEPT ![w] =
             IF data = NoBody
             THEN Response("reset_password", 500, "Internal server error", 0, 0)
             ELSE IF k # 0
             THEN Response("reset_password", 400, "Missing required field", 0, 0)
                    @@ [field |-> ResetFields[k]]
             ELSE Response("reset_password", 200, "", 0, 0)]
    /\ UNCHANGED <<users, otps, now, dbUp, call, verified, repoVars>>

\* POST /auth/forgot-password: one message when User.find_by_email finds a
\* user, another when it finds none (also when the lookup fails).
ForgotBodies == [email : Emails \cup {"nobody@x", None}] \cup {NoBody}

forgot_password(w, data) ==
    /\ req[w].pc \in {"idle", "done"}
    /\ req' = [req EXCEPT ![w] =
         IF data = NoBody
         THEN Response("forgot_password", 500, "Internal server error", 0, 0)
         ELSE IF data.email = None
         THEN Response("forgot_password", 400, "Email is required", 0, 0)
         ELSE Response("forgot_password", 200, "", 0, 0)
                @@ [email |-> data.email,
                    message |-> IF find_by_email(data.email).id # 0
                                THEN "Password reset instructions sent to your email"
                                ELSE "If the email exists, reset instructions have been sent"]]
    /\ UNCHANGED <<users, otps, now, dbUp, call, verified, repoVars>>

----------------------------------------------------------------------------
\* Configuration (config.py), and how create_app and Database load it.
DevSecretKey == "dev-secret-key-change-in-production"
DevJwtSecretKey == "dev-jwt-secret-key-change-in-production"

\* The environment of the process: None for a variable that is not set.
Environments ==
    [FLASK_ENV : {"development", "production"},
     SECRET_KEY : {None, DevSecretKey, "secret"},
     JWT_SECRET_KEY : {None, DevJwtSecretKey, "jwt-secret"},
     MYSQL_HOST : {None, "db"}, MYSQL_USER : {None, "foodbank"},
     MYSQL_PASSWORD : {None, "password"}, MYSQL_DB : {None, "foodbank_db"}]

\* os.environ.get(key) or fallback
or(value, fallback) == IF value = None THEN fallback ELSE value

\* The class attributes of Config, as evaluated when config.py is imported.
Config(env) ==
    [SECRET_KEY |-> or(env.SECRET_KEY, DevSecretKey),
     JWT_SECRET_KEY |-> or(env.JWT_SECRET_KEY, DevJwtSecretKey),
     MYSQL_HOST |-> or(env.MYSQL_HOST, "localhost"),
     MYSQL_USER |-> or(env.MYSQL_USER, "root"),
     MYSQL_PASSWORD |-> or(env.MYSQL_PASSWORD, ""),
     MYSQL_DB |-> or(env.MYSQL_DB, "foodbank_db")]

\* The attributes of the class ProductionConfig: the two secrets are property
\* objects, whose getters (and their ValueError) run only on an instance, and
\* the database settings are os.environ.get without a default.
ProductionConfig(env) ==
    [SECRET_KEY |-> "property object", JWT_SECRET_KEY |-> "property object",
     MYSQL_HOST |-> env.MYSQL_HOST, MYSQL_USER |-> env.MYSQL_USER,
     MYSQL_PASSWORD |-> env.MYSQL_PASSWORD, MYSQL_DB |-> env.MYSQL_DB]

\* get_config: the class for FLASK_ENV, not an instance of it.
get_config(env) ==
    IF env.FLASK_ENV = "production" THEN "ProductionConfig" ELSE "DevelopmentConfig"

\* app.config.from_object(cfg): getattr(cfg, key) for the upper-case names of
\* the class.  No __init__ and no property getter of the class runs.
from_object(cfg, env) ==
    IF cfg = "ProductionConfig" THEN ProductionConfig(env) ELSE Config(env)

\* create_app's get_config() and app.config.from_object(cfg), and the
\* self.config = Config() of Database.__init__, which is the base class
\* whatever the profile.  Neither raises.
load_config(env) ==
    /\ ret' = [fn |-> "load_config", env |-> env, raised |-> FALSE,
               config |-> from_object(get_config(env), env),
               database |-> Config(env)]
    /\ UNCHANGED <<users, otps, now, dbUp, call, verified, session, req, connection, app,
                   donations, requests>>

----------------------------------------------------------------------------
\* db = Database() and the module-level state before create_app: no cached
\* connection, no call made, the application not built, the tables empty.
InitRepo ==
    /\ connection = NoConnection
    /\ ret = [fn |-> "none"]
    /\ app = [state |-> "stopped", initialized |-> "not run"]
    /\ donations = << >>
    /\ requests = << >>
    /\ session = << >>

Init ==
    /\ users = << >>
    /\ otps = << >>
    /\ now = 0
    /\ dbUp = TRUE
    /\ call = [w \in Workers |-> IdleCall]
    /\ verified = {}
    /\ req = [w \in Workers |-> IdleReq]
    /\ InitRepo

InitOtp ==
    /\ users = SeedUsers
    /\ otps = << >>
    /\ now = 0
    /\ dbUp = TRUE
    /\ call = [w \in Workers |-> IdleCall]
    /\ verified = {}
    /\ req = [w \in Workers |-> IdleReq]
    /\ InitRepo

Register == \E w \in Workers, data \in RegisterBodies : register_username(w, data)
RegisterEmail == \E w \in Workers : register_email(w)
RegisterSave == \E w \in Workers : register_save(w)
UpdateProfileGuard == \E w \in Workers, token \in Tokens : update_profile_guard(w, token)
UpdateProfileFind == \E w \in Workers, data \in ProfileBodies : update_profile_find(w, data)
UpdateProfileEmail == \E w \in Workers : update_profile_email(w)
UpdateProfileSave == \E w \in Workers : update_profile_save(w)

NextUsers ==
    \/ Register \/ RegisterEmail \/ RegisterSave
    \/ UpdateProfileGuard \/ UpdateProfileFind \/ UpdateProfileEmail \/ UpdateProfileSave
    \/ DbFlip

SpecUsers == Init /\ [][NextUsers]_vars

InitAuth ==
    /\ users = AuthSeedUsers
    /\ otps = << >>
    /\ now = 0
    /\ dbUp = TRUE
    /\ call = [w \in Workers |-> IdleCall]
    /\ verified = {}
    /\ req = [w \in Workers |-> IdleReq]
    /\ InitRepo

Login == \E w \in Workers, data \in LoginBodies : login_username(w, data)
LoginEmail == \E w \in Workers : login_email(w)
LoginSave == \E w \in Workers : login_save(w)
GetProfileGuard == \E w \in Workers, token \in Tokens : get_profile_guard(w, token)
GetProfile == \E w \in Workers : get_profile(w)
RefreshTokenGuard == \E w \in Workers, token \in Tokens : refresh_token_guard(w, token)
RefreshToken == \E w \in Workers : refresh_token(w)

NextAuth ==
    \/ Login \/ LoginEmail \/ LoginSave
    \/ GetProfileGuard \/ GetProfile
    \/ RefreshTokenGuard \/ RefreshToken
    \/ DbFlip

SpecAuth == InitAuth /\ [][NextAuth]_vars

----------------------------------------------------------------------------
GenerateOtp == \E w \in Workers, u \in UserIds, p \in Purposes : generate_otp(w, u, p)
VerifySelect == \E w \in Workers, u \in UserIds, c \in CodeStrings, p \in Purposes :
                    verify_otp_select(w, u, c, p)
VerifyUpdate == \E w \in Workers : verify_otp_update(w)

NextOtp == GenerateOtp \/ VerifySelect \/ VerifyUpdate \/ Tick \/ DbFlip


SpecOtp == InitOtp /\ [][NextOtp]_vars

----------------------------------------------------------------------------
VerifyDone(w) == call[w].pc = "done" /\ call[w].fn = "verify_otp"

\* C1: once verify_otp has returned True for a user id, code and purpose, every
\* verify_otp call made later with the same three values returns False.
C1_VerifiedCodeFailsLater ==
    \A w \in Workers : (VerifyDone(w) /\ call[w].late) => call[w].ret = FALSE

\* C2: of the verify_otp calls that run against one OTP row, at most one
\* returns True.
C2_OneRowOneSuccess ==
    \A w1, w2 \in Workers :
        (/\ w1 # w2
         /\ VerifyDone(w1) /\ call[w1].ret = TRUE
         /\ VerifyDone(w2) /\ call[w2].ret = TRUE)
        => call[w1].otp_record # call[w2].otp_record

\* C3: a verify_otp whose arguments name only rows at or past their expires_at
\* returns False, and a verify_otp that returns False changes no row.
C3_ExpiredFails ==
    /\ [](\A w \in Workers : (VerifyDone(w) /\ call[w].stale) => call[w].ret = FALSE)
    /\ [][\A w \in Workers :
            (/\ call'[w] # call[w]
             /\ call'[w].pc = "done" /\ call'[w].fn = "verify_otp"
             /\ call'[w].ret = FALSE)
            => otps' = otps]_vars

\* C3's case: an unused row at its expiry was named and the call returned False.
C3_Witness ==
    \E w \in Workers :
        /\ VerifyDone(w) /\ call[w].stale /\ call[w].ret = FALSE
        /\ \E i \in DOMAIN otps : otps[i].is_used = FALSE /\ otps[i].expires_at = now

----------------------------------------------------------------------------
\* Some row of users has this username, this email.
UsernameTaken(username) == \E i \in DOMAIN users : users[i].username = username
EmailTaken(email) == \E i \in DOMAIN users : users[i].email = email

\* Worker w answers a register request in this step.
RegisterAnswered(w) ==
    /\ req[w].pc \in {"reg_email", "reg_save"}
    /\ req'[w].pc = "done"

\* C4 as stated: a register request whose username a stored user has is
\* answered 400 'Username already exists' and stores nothing, also when the
\* username lookup failed or the username was taken after the lookup.
C4_DuplicateUsernameIs400 ==
    [][\A w \in Workers :
        (RegisterAnswered(w) /\ UsernameTaken(req[w].data.username))
        => /\ req'[w].status = 400
           /\ req'[w].error = "Username already exists"
           /\ users' = users]_vars

\* C4, what register does keep: a request with its required fields whose
\* username a stored user has stores nothing and is never answered 201.  It
\* passes the username check only when the lookup failed or the username was
\* still free, and is then answered 400 'Email already exists' or 500 'Failed
\* to create user'.
C4_DuplicateUsernameFails ==
    [][\A w \in Workers :
        /\ (/\ req[w].pc \in {"idle", "done"}
            /\ req'[w].pc = "reg_email"
            /\ UsernameTaken(req'[w].data.username))
            => ~dbUp
        /\ (RegisterAnswered(w) /\ UsernameTaken(req[w].data.username))
            => /\ users' = users
               /\ \/ req'[w].status = 400 /\ req'[w].error = "Email already exists"
                  \/ req'[w].status = 500 /\ req'[w].error = "Failed to create user"
        /\ (req[w].pc = "reg_save" /\ req'[w] # req[w]
                /\ UsernameTaken(req[w].data.username))
            => req'[w].pc = "done" /\ req'[w].status = 500]_vars

\* C4's case: a registration refused for its username.
C4_Witness ==
    \E w \in Workers :
        /\ req[w].pc = "done" /\ req[w].route = "register"
        /\ req[w].status = 400 /\ req[w].error = "Username already exists"
        /\ users # << >>

\* C5: a register request with the four required fields and a username and an
\* email no stored user has is answered 201 with tokens that carry the new
\* user's non-empty id, and find_by_username then returns a row with that id,
\* the email, and the hash of the password, which is not the password (the
\* database being reachable).
C5_RegisterStoresHashedUser ==
    [][\A w \in Workers :
        /\ \A data \in RegisterBodies :
            (/\ req[w].pc \in {"idle", "done"}
             /\ req'[w] # req[w]
             /\ FirstMissing(data, RegisterFields) = 0
             /\ ~UsernameTaken(data.username)
             /\ register_username(w, data))
            => req'[w].pc = "reg_email"
        /\ (req[w].pc = "reg_email" /\ req'[w] # req[w]
                /\ ~EmailTaken(req[w].data.email))
            => req'[w].pc = "reg_save"
        /\ (/\ req[w].pc = "reg_save" /\ req'[w] # req[w]
            /\ ~UsernameTaken(req[w].data.username)
            /\ ~EmailTaken(req[w].data.email)
            /\ dbUp)
            => /\ req'[w].pc = "done"
               /\ req'[w].status = 201
               /\ req'[w].uid # 0
               /\ req'[w].sub = req'[w].uid
               /\ req'[w].uid \in DOMAIN users'
               /\ \A i \in DOMAIN users' :
                    users'[i].username = req[w].data.username <=> i = req'[w].uid
               /\ LET found == users'[req'[w].uid]
                  IN  /\ found.email = req[w].data.email
                      /\ verify_password(found.password_hash, req[w].data.password)
                      /\ found.password_hash.digest # req[w].data.password]_vars

\* C5's case: a registration answered 201 and its row.
C5_Witness ==
    \E w \in Workers :
        /\ req[w].pc = "done" /\ req[w].route = "register" /\ req[w].status = 201
        /\ req[w].uid \in DOMAIN users
        /\ verify_password(users[req[w].uid].password_hash, "pw1")

\* C6: no two rows of users have one username, and no two have one email.
C6_UniqueUsernameAndEmail ==
    \A i, j \in DOMAIN users :
        i # j => /\ users[i].username # users[j].username
                 /\ users[i].email # users[j].email

\* C6's case: two users, and a save that the keys refused.
C6_Witness ==
    /\ Len(users) = 2
    /\ \E w \in Workers :
        /\ req[w].pc = "done" /\ req[w].status = 500
        /\ req[w].error \in {"Failed to create user", "Failed to update profile"}
        /\ dbUp

\* C7: a profile update whose email another user has is answered 400 and
\* changes no row, whatever full_name and phone it carries (the lookup of the
\* email having reached the database).
C7_TakenEmailIs400 ==
    [][\A w \in Workers :
        (/\ req[w].pc = "upd_email" /\ req'[w] # req[w]
         /\ dbUp
         /\ \E j \in DOMAIN users : j # req[w].user.id /\ users[j].email = req[w].email)
        => /\ req'[w].pc = "done"
           /\ req'[w].status = 400
           /\ users' = users]_vars

\* C7's case: a profile update refused for its email, with the caller's row
\* holding the full_name it had.
C7_Witness ==
    \E w \in Workers :
        /\ req[w].pc = "done" /\ req[w].route = "update_profile"
        /\ req[w].status = 400 /\ req[w].error = "Email already taken"
        /\ \A i \in DOMAIN users : users[i].full_name = "n1"

\* C8 as stated: on a guarded route, a request with no token, with a token that
\* is invalid or expired, or with one whose identity is no user's, is answered
\* 401 by the decorator, before the handler.
C8_BadTokenIs401 ==
    \A w \in Workers :
        (/\ req[w].pc = "done"
         /\ req[w].route \in {"get_profile", "update_profile", "refresh_token"}
         /\ req[w].refused
         /\ req[w].error \in {"none", "invalid", "expired", "no user"})
        => req[w].status = 401

\* C9 as stated: POST /auth/refresh with a valid refresh token of an existing
\* user answers 200 with an access token that carries the same identity.
C9_RefreshReissues ==
    [][\A w \in Workers :
        (/\ req[w].pc = "refresh_find" /\ req'[w] # req[w]
         /\ find_by_id(req[w].identity).id # 0)
        => /\ req'[w].status = 200
           /\ req'[w].sub = req[w].identity]_vars

\* The user authenticate_user is to resolve an identifier to: the one with that
\* username, or if there is none the one with that email (0 for none).
Resolved(identifier) ==
    IF UsernameTaken(identifier)
    THEN CHOOSE i \in DOMAIN users : users[i].username = identifier
    ELSE IF EmailTaken(identifier)
    THEN CHOOSE i \in DOMAIN users : users[i].email = identifier
    ELSE 0

\* authenticate_user has returned to the login of worker w.
AuthenticateReturned(w) ==
    /\ req[w].pc \in {"login_save", "done"}
    /\ req[w].route = "login"
    /\ req[w].pc = "done" => req[w].status = 401

\* C10 as stated: authenticate_user returns the resolved user or None, the user
\* only when the password verifies against that user's hash, and always then
\* unless a lookup failed.
C10_AuthenticateResolves ==
    \A w \in Workers :
        AuthenticateReturned(w) =>
            LET U == Resolved(req[w].data.username)
                ok == U # 0 /\ verify_password(users[U].password_hash, req[w].data.password)
            IN  /\ req[w].auth \in {0, U}
                /\ req[w].auth # 0 => ok
                /\ (ok /\ ~req[w].err) => req[w].auth = U

----------------------------------------------------------------------------
\* A login of worker w that was refused after authenticate_user returned None.
LoginRefused(w) ==
    /\ req[w].pc = "done" /\ req[w].route = "login"
    /\ req[w].status # 400 /\ req[w].status # 200

\* What the caller of a login sees: the status and the body.
LoginResponse(w) == <<req[w].status, req[w].error, req[w].sub, req[w].uid>>

\* The password of this body does not verify against the user its identifier
\* resolves to.
WrongPassword(data) ==
    /\ Resolved(data.username) # 0
    /\ ~verify_password(users[Resolved(data.username)].password_hash, data.password)

\* C11: the response of a login whose identifier matches no user equals the
\* response of a login for an existing user with a wrong password.
C11_LoginIndistinguishable ==
    \A w1, w2 \in Workers :
        (/\ LoginRefused(w1) /\ Resolved(req[w1].data.username) = 0
         /\ LoginRefused(w2) /\ WrongPassword(req[w2].data))
        => LoginResponse(w1) = LoginResponse(w2)

\* C11's case: one login refused for an unknown identifier and one refused for
\* a wrong password, neither having met a failed lookup.
C11_Witness ==
    \E w1, w2 \in Workers :
        /\ LoginRefused(w1) /\ Resolved(req[w1].data.username) = 0 /\ ~req[w1].err
        /\ LoginRefused(w2) /\ WrongPassword(req[w2].data) /\ ~req[w2].err
        /\ LoginResponse(w1) = <<401, "Invalid credentials", 0, 0>>

\* C12 as stated, for login: a login whose lookups all met an unreachable
\* database is answered 500.
C12_UnreachableIs500 ==
    [][\A w \in Workers :
        (/\ req[w].pc = "login_email" /\ req[w].err
         /\ ~dbUp
         /\ req'[w] # req[w])
        => req'[w].status = 500]_vars

----------------------------------------------------------------------------
InitDb ==
    /\ users = SeedUsers
    /\ otps = << >>
    /\ now = 0
    /\ dbUp = TRUE
    /\ call = [w \in Workers |-> IdleCall]
    /\ verified = {}
    /\ req = [w \in Workers |-> IdleReq]
    /\ connection = NoConnection
    /\ ret = [fn |-> "none"]
    /\ app = [state |-> "stopped", initialized |-> "not run"]
    /\ donations = SeedDonations
    /\ requests = << >>
    /\ session = << >>

FinderCall == \E fn \in Finders, fail \in Failures : \E arg \in FinderArgs(fn) : finder(fn, arg, fail)

UserSaveCall ==
    \E user \in UserObjects, fail \in SaveFailures :
        save("User", [ret |-> UserSave(user).ret, table |-> UserSave(user).users], fail)
FoodDonationSaveCall ==
    \E donation \in DonationObjects, fail \in SaveFailures :
        save("FoodDonation", FoodDonationSave(donation), fail)
FoodRequestSaveCall ==
    \E request \in RequestObjects, fail \in SaveFailures :
        save("FoodRequest", FoodRequestSave(request), fail)
SaveCall == UserSaveCall \/ FoodDonationSaveCall \/ FoodRequestSaveCall

NextSave == UserSaveCall \/ FoodDonationSaveCall \/ FoodRequestSaveCall \/ DbFlip

SpecSave == Init /\ [][NextSave]_vars

SaveExecute ==
    \E w \in Workers, user \in {u \in UserObjects : u.id = 0 \/ u.username = "alice"} :
        save_execute(w, user)
SaveCommit == \E w \in Workers : save_commit(w)
SaveRollback == \E w \in Workers : save_rollback(w)

NextShared == SaveExecute \/ SaveCommit \/ SaveRollback \/ DbFlip

SpecShared == Init /\ [][NextShared]_vars

CreateAppConnect == create_app_connect
CreateAppInitialize == \E fail \in InitFailures : create_app_initialize(fail)

NextDb ==
    \/ db_get_connection
    \/ FinderCall
    \/ CreateAppConnect
    \/ CreateAppInitialize
    \/ Restart
    \/ db_close_connection
    \/ ConnectionLost
    \/ DbFlip

SpecDb == InitDb /\ [][NextDb]_vars

\* C13: get_connection returns the cached connection when it is connected and
\* otherwise opens, caches and returns a new one (None when the server cannot
\* be reached); close_connection closes the cached connection if it is
\* connected and does nothing otherwise; a result of get_connection that is
\* not None is an open connection to a server that answers.
C13_GetConnection ==
    [][/\ db_get_connection =>
            /\ IF connection.id # 0 /\ connection.open /\ dbUp
               THEN connection' = connection /\ ret'.conn = connection
               ELSE IF dbUp
               THEN /\ connection'.id \notin {0, connection.id}
                    /\ ret'.conn = connection'
               ELSE ret'.conn = NoConnection /\ connection' = connection
            /\ ret'.conn.id # 0 => (ret'.conn.open /\ dbUp)
       /\ db_close_connection =>
            IF connection.id # 0 /\ connection.open /\ dbUp
            THEN connection'.id = connection.id /\ ~connection'.open
            ELSE connection' = connection]_vars

\* C13's case: get_connection has replaced a closed or lost connection.
C13_Witness ==
    /\ ret.fn = "get_connection"
    /\ ret.conn = connection
    /\ connection.id = 2 /\ connection.open /\ dbUp

\* C14 as stated: no finder raises to its caller; on a failure of the
\* connection, of the cursor, of the query or of hydration it returns None or
\* an empty list.
C14_FindersNeverRaise ==
    ret.fn \in Finders =>
        /\ ~ret.raised
        /\ ret.fail # "none" => ret.value = Empty(ret.fn)

\* C15 as stated: save never raises; it returns an id only when its write was
\* committed, and a save that returns None has left the tables as they were.
C15_SaveReturnsIdOrNone ==
    [][SaveCall =>
        /\ ~ret'.raised
        /\ ret'.value # 0 => ret'.fail = "none"
        /\ ret'.value = 0 =>
            /\ users' = users
            /\ donations' = donations
            /\ requests' = requests]_vars

\* C16 as stated: the application serves requests only after an
\* initialize_database that returned True.
C16_ServesOnlyInitialized ==
    app.state = "serving" => app.initialized = "True"

----------------------------------------------------------------------------
InitApi ==
    /\ users = SeedUsers
    /\ otps = << >>
    /\ now = 0
    /\ dbUp = TRUE
    /\ call = [w \in Workers |-> IdleCall]
    /\ verified = {}
    /\ req = [w \in Workers |-> IdleReq]
    /\ connection = NoConnection
    /\ ret = [fn |-> "none"]
    /\ app = [state |-> "stopped", initialized |-> "not run"]
    /\ donations = SeedDonations
    /\ requests = << >>
    /\ session = << >>

CreateDonationGuard == \E w \in Workers, token \in Tokens : create_donation_guard(w, token)
CreateDonation == \E w \in Workers, data \in DonationBodies : create_donation(w, data)
GetInventoryGuard == \E w \in Workers, token \in Tokens : get_inventory_guard(w, token)
GetInventory == \E w \in Workers : get_inventory(w)
GetDonationsGuard == \E w \in Workers, token \in Tokens : get_donations_guard(w, token)
GetDonations == \E w \in Workers, query \in DonationQueries : get_donations(w, query)
VerifyOtpRoute == \E w \in Workers, data \in OtpVerifyBodies : verify_otp_route(w, data)
ResetPassword == \E w \in Workers, data \in ResetBodies : reset_password(w, data)
ForgotPassword == \E w \in Workers, data \in ForgotBodies : forgot_password(w, data)

NextApi ==
    \/ CreateDonationGuard \/ CreateDonation
    \/ GetInventoryGuard \/ GetInventory
    \/ GetDonationsGuard \/ GetDonations
    \/ VerifyOtpRoute
    \/ ResetPassword
    \/ ForgotPassword
    \/ DbFlip

SpecApi == InitApi /\ [][NextApi]_vars

LoadConfig == \E env \in Environments : load_config(env)

NextConfig == LoadConfig \/ DbFlip

SpecConfig == InitDb /\ [][NextConfig]_vars

\* The requests that follow registration: login, profile update, token
\* refresh, forgot-password and reset-password, on two registered users.
NextAccount ==
    \/ Login \/ LoginEmail \/ LoginSave
    \/ UpdateProfileGuard \/ UpdateProfileFind \/ UpdateProfileEmail \/ UpdateProfileSave
    \/ RefreshTokenGuard \/ RefreshToken
    \/ ForgotPassword \/ ResetPassword
    \/ DbFlip

SpecAccount == InitAuth /\ [][NextAccount]_vars

Next == NextOtp \/ NextUsers \/ NextAuth \/ NextDb \/ NextSave \/ NextApi \/ NextConfig \/ NextShared \/ NextAccount

Spec == Init /\ [][Next]_vars

\* C17 as stated: with the database reachable, GET /inventory answers with
\* exactly the stored donations whose status is pending.
C17_InventoryIsPending ==
    [][\A w \in Workers :
        (req[w].pc = "inventory_find" /\ req'[w] # req[w] /\ dbUp)
        => /\ req'[w].status = 200
           /\ req'[w].items = {i \in DOMAIN donations : donations[i].status = "pending"}]_vars

\* The moves of a donation's status that the lifecycle allows.
LifecycleMoves ==
    {<<"pending", "approved">>, <<"approved", "collected">>}
    \cup {<<from, "cancelled">> : from \in DonationStatuses}

\* C18 as stated: every stored donation has one of the four statuses, a new
\* row has status pending, and the status of a row stays or makes one of the
\* moves of the lifecycle.
C18_DonationLifecycle ==
    [][\A i \in DOMAIN donations' :
        /\ donations'[i].status \in DonationStatuses
        /\ i \notin DOMAIN donations => donations'[i].status = "pending"
        /\ i \in DOMAIN donations =>
            \/ donations'[i].status = donations[i].status
            \/ <<donations[i].status, donations'[i].status>> \in LifecycleMoves]_vars

\* C19 as stated: a POST /donations of an authenticated user with food_item and
\* quantity present, the database reachable, is answered 201 and stores one
\* donation, owned by that user.
C19_DonationCreated ==
    [][\A w \in Workers : \A data \in DonationBodies :
        (/\ req[w].pc = "donation_save"
         /\ dbUp
         /\ data # NoBody
         /\ create_donation(w, data)
         /\ FirstMissing(data, DonationFields) = 0)
        => /\ req'[w].status = 201
           /\ Len(donations') = Len(donations) + 1
           /\ donations'[Len(donations')].user_id = req[w].identity]_vars

\* C20 as stated, for reset-password, OTP verify and create donation: a body
\* that lacks a required field is answered 400 naming the first missing field
\* and nothing is written, and a request without a JSON body is answered 400.
C20_MissingFieldIs400 ==
    [][\A w \in Workers :
        /\ \A data \in ResetBodies :
            reset_password(w, data) =>
                IF data = NoBody THEN req'[w].status = 400
                ELSE FirstMissing(data, ResetFields) # 0 =>
                        /\ req'[w].status = 400
                        /\ req'[w].field = ResetFields[FirstMissing(data, ResetFields)]
        /\ \A data \in OtpVerifyBodies :
            verify_otp_route(w, data) =>
                IF data = NoBody THEN req'[w].status = 400
                ELSE FirstMissing(data, OtpVerifyFields) # 0 =>
                        /\ req'[w].status = 400
                        /\ req'[w].field = OtpVerifyFields[FirstMissing(data, OtpVerifyFields)]
        /\ \A data \in DonationBodies :
            create_donation(w, data) =>
                IF data = NoBody THEN req'[w].status = 400
                ELSE FirstMissing(data, DonationFields) # 0 =>
                        /\ req'[w].status = 400
                        /\ req'[w].field = DonationFields[FirstMissing(data, DonationFields)]
                        /\ donations' = donations]_vars

----------------------------------------------------------------------------
\* The production profile with a secret unset or at its development fallback,
\* or a database setting unset.
BadProduction(env) ==
    /\ env.FLASK_ENV = "production"
    /\ \/ env.SECRET_KEY \in {None, DevSecretKey}
       \/ env.JWT_SECRET_KEY \in {None, DevJwtSecretKey}
       \/ None \in {env.MYSQL_HOST, env.MYSQL_USER, env.MYSQL_PASSWORD, env.MYSQL_DB}

\* C21 as stated: loading the configuration of such an environment fails with
\* an error.
C21_ProductionRejectsFallbacks ==
    (ret.fn = "load_config" /\ BadProduction(ret.env)) => ret.raised

----------------------------------------------------------------------------
\* Worker w has the answer of a forgot-password request that named an email.
ForgotAnswered(w) ==
    req[w].pc = "done" /\ req[w].route = "forgot_password" /\ req[w].status = 200

\* C22 as stated: forgot-password answers an email of a stored user and an
\* email of none with the same status and body, and no forgot-password or
\* reset-password step changes the users table.
C22_ForgotPasswordIndistinguishable ==
    /\ [](\A w1, w2 \in Workers :
            (/\ ForgotAnswered(w1) /\ EmailTaken(req[w1].email)
             /\ ForgotAnswered(w2) /\ ~EmailTaken(req[w2].email))
            => /\ req[w1].status = req[w2].status
               /\ req[w1].message = req[w2].message)
    /\ [][(ForgotPassword \/ ResetPassword) => users' = users]_vars

----------------------------------------------------------------------------
\* First half of C23: when a save returns an id, the statement it executed
\* is committed (no rollback of another request has discarded it).
SavedIsCommitted ==
    [][\A w \in Workers :
         (call[w].pc = "save_commit" /\ call'[w].pc = "done" /\ call'[w].ret # 0)
         => call'[w].fate = "committed"]_vars

\* Second half of C23: a save that reports failure (None or an exception) has
\* not had its statement made permanent by the commit of another request.
FailedIsNotCommitted ==
    [][\A w \in Workers :
         (call[w].pc \in {"save_commit", "save_except"} /\ call'[w].pc = "done"
          /\ call'[w].ret = 0)
         => call'[w].fate # "committed"]_vars

\* C23 as stated: with requests running side by side on the shared
\* connection, a save that returned an id is durable, and no commit makes
\* permanent the write of a request that then reports failure.
C23_SavedIsDurable == SavedIsCommitted /\ FailedIsNotCommitted

----------------------------------------------------------------------------
\* Every stored user keeps the password_hash, username and role it was
\* registered with.
CredentialsKept ==
    /\ DOMAIN users = DOMAIN AuthSeedUsers
    /\ \A i \in DOMAIN users :
         /\ users[i].password_hash = AuthSeedUsers[i].password_hash
         /\ users[i].username = AuthSeedUsers[i].username
         /\ users[i].role = AuthSeedUsers[i].role

\* The save of a login leaves every column but last_login of every row as it
\* was.
LoginChangesOnlyLastLogin ==
    [][(\E w \in Workers : req[w].pc = "login_save" /\ req'[w].pc = "done") =>
         /\ DOMAIN users' = DOMAIN users
         /\ \A i \in DOMAIN users :
              [users'[i] EXCEPT !.last_login = users[i].last_login] = users[i]]_vars

\* C24 as stated: no sequence of login, profile-update, token-refresh,
\* forgot-password and reset-password requests changes a stored user's
\* password_hash, username or role, and a successful login changes only
\* last_login.
C24_CredentialsFrame == []CredentialsKept /\ LoginChangesOnlyLastLogin
====
